---- MODULE Spec2Model ----
(***************************************************************************)
(* A model of the PDF summarizer: the title and author heuristics of       *)
(* summarizer.py, the statistics and the batch orchestration of            *)
(* batch_processor.py, the /process and /batch endpoints of api.py.        *)
(* Python strings are TLA+ strings; a character is a string of length one. *)
(* Font sizes are in tenths of a point.                                    *)
(***************************************************************************)
EXTENDS Integers, Sequences, FiniteSets, TLC

VARIABLES
    twf,             \* extract_title_from_font_info: its argument text_with_font
    title_elements,  \* indices (into twf) of the spans appended to title_elements
    fontTitle,       \* its return value
    fontPc,          \* "idle" | "call" | "done"
    text,            \* improved_extract_title: its argument text (RawText)
    pdfSrc,          \* what pdf_path gives: absent, an extractor that raises, or spans
    kwOut,           \* what kw_model.extract_keywords does when it is called
    content_lines,   \* improved_extract_title.content_lines
    title_lines,     \* improved_extract_title.title_lines
    strategies,      \* the strategies run so far, in order
    title,           \* the returned title
    titlePc,         \* "idle" | "font" | "lines" | "keybert" | "final" | "done" | "raised"
    titleArg,        \* extract_authors: its argument title (None when absent)
    title_end_index, \* extract_authors.title_end_index, 1-based (0: not found)
    potential_authors, \* indices of the spans appended to potential_authors
    author_candidates, \* extract_authors.author_candidates
    authorStrategies,  \* the author strategies run so far, in order
    authors,         \* the returned author string
    authorPc,        \* "idle" | "font" | "lines" | "pattern" | "done" | "raised"
    rawText,         \* _calculate_statistics: its argument text
    summaryText,     \* _calculate_statistics: its argument summary
    statistics,      \* the dict it returns
    statsPc,         \* "idle" | "call" | "done" | "raised"
    sumWords,        \* summarize: text.split() of its argument
    modelOut,        \* what the summarization pipeline does when it is called
    modelCall,       \* the call summarize made to the pipeline (None before)
    summary,         \* the returned summary
    sumPc,           \* "idle" | "call" | "done" | "raised"
    pdf_paths,       \* process_batch: its argument, the files behind the paths
    max_workers,     \* BatchProcessor.max_workers
    progress_callback, \* process_batch: its argument ("none" | "returns" | "raises")
    futures,         \* the futures of future_to_path, in submission order
    yielded,         \* the futures as_completed has yielded
    results,         \* BatchProcessor.results
    errors,          \* BatchProcessor.errors
    callbacks,       \* the calls made to progress_callback
    batch_summary,   \* the dict process_batch returns (None before)
    batchPc,         \* "idle" | "start" | "collect" | "done" | "raised"
    extractFn,       \* the extraction function that is called
    file,            \* the file behind its argument pdf_path
    doc,             \* the handle fitz.open returned: "none" | "open" | "closed"
    page_no,         \* extract_text_from_pdf: the next page of the loop
    full_text,       \* extract_text_from_pdf: full_text
    text_with_font,  \* extract_text_with_font_info: text_with_font
    extractPc,       \* "idle" | "call" | "opened" | "returned" | "raised"
    normText,        \* clean_text: its argument text
    normalized,      \* its return value
    normPc,          \* "idle" | "call" | "done"
    endpoint,        \* api.py: the route of the request, "/process" or "/batch"
    uploads,         \* the uploads of request.files, in order
    tmp_files,       \* the temporary files that exist on disk
    temp_paths,      \* process_batch.temp_paths (for /process: tmp_path, once assigned)
    raised,          \* the exception on its way to the handler (None when there is none)
    response,        \* the response of the endpoint (None before)
    called,          \* the functions of summarizer.py /process has called after the extraction
    apiPc            \* "idle" | "validate" | "save" | "process" | "finally" | "handler" | "done"

fontVars == <<twf, title_elements, fontTitle, fontPc>>
titleVars == <<text, pdfSrc, kwOut, content_lines, title_lines, strategies, title, titlePc>>
authorVars == <<titleArg, title_end_index, potential_authors, author_candidates,
                authorStrategies, authors, authorPc>>
statsVars == <<rawText, summaryText, statistics, statsPc>>
sumVars == <<sumWords, modelOut, modelCall, summary, sumPc>>
batchVars == <<pdf_paths, max_workers, progress_callback, futures, yielded, results, errors,
               callbacks, batch_summary, batchPc>>
extractVars == <<extractFn, file, doc, page_no, full_text, text_with_font, extractPc>>
normVars == <<normText, normalized, normPc>>
apiVars == <<endpoint, uploads, tmp_files, temp_paths, raised, response, called, apiPc>>

exceptFont == <<titleVars, authorVars, statsVars, sumVars, batchVars, extractVars, normVars, apiVars>>
exceptTitle == <<fontVars, authorVars, statsVars, sumVars, batchVars, extractVars, normVars, apiVars>>
exceptAuthors == <<fontVars, titleVars, statsVars, sumVars, batchVars, extractVars, normVars, apiVars>>
exceptStats == <<fontVars, titleVars, authorVars, sumVars, batchVars, extractVars, normVars, apiVars>>
exceptSummarize == <<fontVars, titleVars, authorVars, statsVars, batchVars, extractVars, normVars, apiVars>>
exceptBatch == <<fontVars, titleVars, authorVars, statsVars, sumVars, extractVars, normVars, apiVars>>
exceptExtract == <<fontVars, titleVars, authorVars, statsVars, sumVars, batchVars, normVars, apiVars>>
exceptNormalize == <<fontVars, titleVars, authorVars, statsVars, sumVars, batchVars, extractVars, apiVars>>
exceptApi == <<fontVars, titleVars, authorVars, statsVars, sumVars, batchVars, extractVars, normVars>>

-----------------------------------------------------------------------------
(* Python values *)

None == [some |-> FALSE, val |-> ""]
Some(v) == [some |-> TRUE, val |-> v]

Min(a, b) == IF a <= b THEN a ELSE b
Max(a, b) == IF a >= b THEN a ELSE b

-----------------------------------------------------------------------------
(* str *)

Ch(s, i) == SubSeq(s, i, i)

Uppers == "ABCDEFGHIJKLMNOPQRSTUVWXYZ"
Lowers == "abcdefghijklmnopqrstuvwxyz"
Digits == "0123456789"

CharsOf(s) == {Ch(s, i) : i \in 1..Len(s)}

UpperSet == CharsOf(Uppers)
LetterSet == CharsOf(Uppers) \cup CharsOf(Lowers)
DigitSet == CharsOf(Digits)

IsUpper(c) == c \in UpperSet
IsLetter(c) == c \in LetterSet
IsDigit(c) == c \in DigitSet
IsSpace(c) == c \in {" ", "\n", "\t"}
\* \w of the re module
IsWordCh(c) == IsLetter(c) \/ IsDigit(c) \/ c = "_"

LowerCh(c) == IF IsUpper(c) THEN Ch(Lowers, CHOOSE i \in 1..26 : Ch(Uppers, i) = c) ELSE c

RECURSIVE lower(_)
lower(s) ==
    IF s = "" THEN ""
    ELSE IF Len(s) = 1 THEN LowerCh(s)
    ELSE LET h == Len(s) \div 2
         IN  lower(SubSeq(s, 1, h)) \o lower(SubSeq(s, h + 1, Len(s)))

RECURSIVE lstrip(_)
lstrip(s) == IF s # "" /\ IsSpace(Ch(s, 1)) THEN lstrip(Tail(s)) ELSE s

RECURSIVE rstrip(_)
rstrip(s) == IF s # "" /\ IsSpace(Ch(s, Len(s))) THEN rstrip(SubSeq(s, 1, Len(s) - 1)) ELSE s

strip(s) == rstrip(lstrip(s))

\* sub in s
In(sub, s) == \E i \in 1..(Len(s) - Len(sub) + 1) : SubSeq(s, i, i + Len(sub) - 1) = sub

endswith(s, suf) == Len(s) >= Len(suf) /\ SubSeq(s, Len(s) - Len(suf) + 1, Len(s)) = suf

\* s.split(sep) for a one-character separator: the pieces, empty ones included
RECURSIVE split_on(_, _)
split_on(s, sep) ==
    IF \A i \in 1..Len(s) : Ch(s, i) # sep THEN <<s>>
    ELSE LET k == CHOOSE i \in 1..Len(s) : Ch(s, i) = sep /\ \A j \in 1..(i - 1) : Ch(s, j) # sep
         IN  <<SubSeq(s, 1, k - 1)>> \o split_on(SubSeq(s, k + 1, Len(s)), sep)

\* s.split(): the whitespace-delimited tokens, none of them empty
RECURSIVE split(_)
split(s) ==
    LET t == lstrip(s)
    IN  IF t = "" THEN <<>>
        ELSE IF \A i \in 1..Len(t) : ~IsSpace(Ch(t, i)) THEN <<t>>
        ELSE LET k == CHOOSE i \in 1..Len(t) : IsSpace(Ch(t, i)) /\ \A j \in 1..(i - 1) : ~IsSpace(Ch(t, j))
             IN  <<SubSeq(t, 1, k - 1)>> \o split(SubSeq(t, k + 1, Len(t)))

\* sep.join(parts)
RECURSIVE join(_, _)
join(sep, parts) ==
    IF parts = <<>> THEN ""
    ELSE IF Len(parts) = 1 THEN parts[1]
    ELSE parts[1] \o sep \o join(sep, Tail(parts))

-----------------------------------------------------------------------------
(* re.search, for the shapes of pattern the program uses *)

WordAt(s, i) == i \in 1..Len(s) /\ IsWordCh(Ch(s, i))
\* \b between the characters i and i+1 of s (0 and Len(s) are the ends)
Boundary(s, i) == WordAt(s, i) # WordAt(s, i + 1)

\* re.search(r'\b(p1|p2|...)\b', s)
SearchWords(alts, s) ==
    \E p \in alts : \E i \in 1..(Len(s) - Len(p) + 1) :
        /\ SubSeq(s, i, i + Len(p) - 1) = p
        /\ Boundary(s, i - 1)
        /\ Boundary(s, i + Len(p) - 1)

\* re.search(r'\[\d+\]', s) on the slice i..j: s[i..j] is "[", digits, "]"
IsBracketedNumber(s) ==
    /\ Len(s) >= 3
    /\ Ch(s, 1) = "["
    /\ Ch(s, Len(s)) = "]"
    /\ \A k \in 2..(Len(s) - 1) : IsDigit(Ch(s, k))

\* re.search(r'^\[\d+\]$|^[a-zA-Z]$', s); $ also matches before a final line break
MatchesCitationOrLetter(s) ==
    LET t == IF endswith(s, "\n") THEN SubSeq(s, 1, Len(s) - 1) ELSE s
    IN  \/ IsBracketedNumber(s) \/ IsBracketedNumber(t)
        \/ (Len(s) = 1 /\ IsLetter(s)) \/ (Len(t) = 1 /\ IsLetter(t))

-----------------------------------------------------------------------------
(* extract_title_from_font_info *)

FirstElements == 10

Span(t, z) == [text |-> t, size |-> z]

first_elements(spans) == SubSeq(spans, 1, Min(FirstElements, Len(spans)))

max_font(spans) ==
    LET fe == first_elements(spans)
    IN  CHOOSE m \in {fe[i].size : i \in 1..Len(fe)} : \A i \in 1..Len(fe) : fe[i].size <= m

\* size >= max_font * 0.8, sizes in tenths of a point
AtThreshold_Half(size, maxf) == size * 10 >= maxf * 5

AtThreshold(size, maxf) == size * 10 >= maxf * 8

AffiliationWords == {"department", "university", "institute", "email", "@"}

\* the skip of line 76, wrongly tied to the font size like the skip of line 72
SkipCitation_BelowMax(txt, size, maxf) == MatchesCitationOrLetter(txt) /\ size < maxf

SkipCitation(txt, size, maxf) == MatchesCitationOrLetter(txt)

\* The loop of lines 70-88 without the break of line 88: smaller text is passed over.
RECURSIVE TitleWalk_NoBreak(_, _, _)
TitleWalk_NoBreak(spans, i, acc) ==
    LET fe   == first_elements(spans)
        maxf == max_font(spans)
    IN  IF i > Len(fe) THEN acc
        ELSE LET txt  == fe[i].text
                 size == fe[i].size
             IN  IF (Len(txt) <= 1 \/ Len(txt) < 4) /\ size < maxf
                     THEN TitleWalk_NoBreak(spans, i + 1, acc)
                 ELSE IF MatchesCitationOrLetter(txt)
                     THEN TitleWalk_NoBreak(spans, i + 1, acc)
                 ELSE IF size * 10 >= maxf * 8 /\ ~SearchWords(AffiliationWords, lower(txt))
                     THEN TitleWalk_NoBreak(spans, i + 1, Append(acc, i))
                 ELSE TitleWalk_NoBreak(spans, i + 1, acc)

\* The loop of lines 70-88 from span i on, acc the indices appended so far.
RECURSIVE TitleWalk(_, _, _)
TitleWalk(spans, i, acc) ==
    LET fe   == first_elements(spans)
        maxf == max_font(spans)
    IN  IF i > Len(fe) THEN acc
        ELSE LET txt  == fe[i].text
                 size == fe[i].size
             IN  IF (Len(txt) <= 1 \/ Len(txt) < 4) /\ size < maxf
                     THEN TitleWalk(spans, i + 1, acc)
                 ELSE IF SkipCitation(txt, size, maxf)
                     THEN TitleWalk(spans, i + 1, acc)
                 ELSE IF AtThreshold(size, maxf)
                     THEN IF ~SearchWords(AffiliationWords, lower(txt))
                              THEN TitleWalk(spans, i + 1, Append(acc, i))
                              ELSE TitleWalk(spans, i + 1, acc)
                 ELSE IF acc # <<>> THEN acc
                 ELSE TitleWalk(spans, i + 1, acc)

TitleElements(spans) == IF spans = <<>> THEN <<>> ELSE TitleWalk(spans, 1, <<>>)

extract_title_from_font_info(spans) ==
    LET kept == TitleElements(spans)
    IN  IF kept = <<>> THEN None
        ELSE Some(join(" ", [k \in 1..Len(kept) |-> spans[kept[k]].text]))

-----------------------------------------------------------------------------
(* The font-span sequences the font strategy is applied to *)

MaxSpans == 3

SpanPool == {
    Span("Paper Title Here", 240),
    Span("Paper Title Here cont.", 235),
    Span("J. Doe, University of X", 110),
    Span("[12]", 300),
    Span("A", 300),
    Span("Body text", 100),
    Span("Fig", 80),
    Span("Deep Learning @ Scale", 240) }

\* the spans of the spec's scenario
PaperSpans == <<Span("Paper Title Here", 240), Span("Paper Title Here cont.", 235),
                Span("J. Doe, University of X", 110)>>

SeqsUpTo(S, n) == UNION {[1..k -> S] : k \in 0..n}

Filler == Span("Running head of the page", 100)

\* nothing, or enough leading spans to push the drawn ones to the 10th place and beyond
Paddings == {[i \in 1..k |-> Filler] : k \in {0, FirstElements - 1, FirstElements}}

FontIdle == twf = <<>> /\ title_elements = <<>> /\ fontTitle = None /\ fontPc = "idle"

FontInit ==
    /\ twf \in {p \o s : p \in Paddings, s \in SeqsUpTo(SpanPool, MaxSpans)}
    /\ title_elements = <<>>
    /\ fontTitle = None
    /\ fontPc = "call"

ExtractTitleFromFontInfo ==
    /\ fontPc = "call"
    /\ title_elements' = TitleElements(twf)
    /\ fontTitle' = extract_title_from_font_info(twf)
    /\ fontPc' = "done"
    /\ UNCHANGED twf
    /\ UNCHANGED exceptFont

-----------------------------------------------------------------------------
(* improved_extract_title *)

MinTitleLen == 10
TitleCandidateLines == 5
ShortLineLen == 3
AuthorLineLen == 30
AuthorLineWords == 3
FragmentLen == 50
LongLineLen == 200
KeywordLines == 15
FallbackLines == 3
FallbackMinLen == 15

\* re.search(r'\d+\s*$', s): a digit with only digits, then only whitespace, up to the end
DigitsAtEnd(s) ==
    \E i \in 1..Len(s) : IsDigit(Ch(s, i)) /\ \A j \in (i + 1)..Len(s) : IsSpace(Ch(s, j))

\* re.search(r'(page|doi|<copyright>|http|www|\d+\s*$)', s), s lower-cased.  In the
\* source the copyright alternative is two upper-case letters (an encoding
\* slip), which no lower-cased line contains: that alternative never matches.
IsHeaderFooter(s) ==
    \/ In("page", s) \/ In("doi", s) \/ In("http", s) \/ In("www", s)
    \/ DigitsAtEnd(s)

\* lines 220-227: the stripped non-empty lines that are no header or footer
RECURSIVE FilterContent(_)
FilterContent(lines) ==
    IF lines = <<>> THEN <<>>
    ELSE LET line == strip(lines[1])
         IN  IF line # "" /\ ~IsHeaderFooter(lower(line))
                 THEN <<line>> \o FilterContent(Tail(lines))
                 ELSE FilterContent(Tail(lines))

ContentLines(t) == FilterContent(split_on(strip(t), "\n"))

\* any(re.search(pattern, s) for pattern in end_markers), s lower-cased
MatchesEndMarker(s) ==
    \/ SearchWords({"abstract"}, s)
    \/ SearchWords({"introduction"}, s)
    \/ SearchWords({"university", "institute", "college", "school"}, s)
    \/ SearchWords({"department"}, s)
    \/ In("@", s)
    \/ SearchWords({"email"}, s)
    \/ (Len(s) >= 2 /\ IsDigit(Ch(s, 1)) /\ IsSpace(Ch(s, 2)))
    \/ \E i \in 1..Len(s) : Ch(s, i) = "[" /\ \E j \in (i + 2)..Len(s) :
           Ch(s, j) = "]" /\ IsBracketedNumber(SubSeq(s, i, j))
    \/ \E i \in 1..(Len(s) - 3) : \A k \in i..(i + 3) : IsDigit(Ch(s, k))
    \/ SearchWords({"submitted", "received", "accepted", "published"}, s)

\* lines 259-268: a short line with a comma or at most 3 words, after the first
\* line, is taken for the author line unless a line collected before it is
\* short and does not end in a period
LooksLikeAuthors(line) ==
    Len(line) < AuthorLineLen /\ (In(",", line) \/ Len(split(line)) <= AuthorLineWords)

CompletesPrevious(acc) ==
    \E k \in 1..Len(acc) : Len(acc[k]) < FragmentLen /\ ~endswith(acc[k], ".")

IsLikelyAuthor(line, acc) == LooksLikeAuthors(line) /\ ~CompletesPrevious(acc)

\* The loop of lines 247-272 from content line i on (i = 1 is Python's i = 0).
RECURSIVE LineWalk(_, _, _)
LineWalk(cl, i, acc) ==
    IF i > Min(TitleCandidateLines, Len(cl)) THEN acc
    ELSE LET line == cl[i]
         IN  IF Len(line) < ShortLineLen /\ i > 1 THEN LineWalk(cl, i + 1, acc)
             ELSE IF MatchesEndMarker(lower(line)) THEN acc
             ELSE IF i > 1 /\ IsLikelyAuthor(line, acc) THEN acc
             ELSE IF Len(line) < LongLineLen THEN LineWalk(cl, i + 1, Append(acc, line))
             ELSE LineWalk(cl, i + 1, acc)

TitleLines(cl) == LineWalk(cl, 1, <<>>)

\* lines 294-298
RECURSIVE FirstSubstantial(_)
FirstSubstantial(lines) ==
    IF lines = <<>> THEN "Unknown Title"
    ELSE IF Len(lines[1]) > FallbackMinLen /\ Len(lines[1]) < LongLineLen THEN lines[1]
    ELSE FirstSubstantial(Tail(lines))

FinalFallbackTitle(cl) == FirstSubstantial(SubSeq(cl, 1, Min(FallbackLines, Len(cl))))

\* line 214 without its length test
FontAccepted_AnyLength(ft) == ft.some /\ ft.val # ""

\* line 214
FontAccepted(ft) == ft.some /\ ft.val # "" /\ Len(ft.val) > MinTitleLen

\* the font-based strategy without its try/except
FontErrorCaught_Missing == FALSE

\* the handlers of lines 216 and 290: except Exception
FontErrorCaught == TRUE
\* the keyword fallback without its try/except
KeyBERTErrorCaught_Missing == FALSE
KeyBERTErrorCaught == TRUE

-----------------------------------------------------------------------------
(* The documents improved_extract_title is applied to *)

MaxLines == 3

\* 4 * 52 = 208 characters
LongLine ==
    LET w == "A very long run of words that never ends and goes on "
    IN  w \o w \o w \o w

LinePool == {
    "Deep Learning for X",
    "Alice Smith, Bob Jones",
    "Abstract: ...",
    "Page 3 of 12",
    "A Survey of Methods for Learning Representations of Text.",
    "of",
    "University of Somewhere, Dept. of X",
    LongLine }

DeepLearningText == "Deep Learning for X\nAlice Smith, Bob Jones\nAbstract: ..."

ScenarioTexts == {DeepLearningText, "  \n", "Deep Learning for X\n\n  Alice Smith, Bob Jones ", "Learning\nto\nRank [3]", "Abstract: ...\nShort one\nA line of substance here\nToo late to be taken",
                  "12 Deep  Learning Methods\nAbstract: ...",
                  "Deep Learning for X\n@\nA Survey of Methods for Learning Representations of Text.",
                  "Abstract: ...\nShort one\nToo short\nA line of substance here"}

Texts == {join("\n", ls) : ls \in SeqsUpTo(LinePool, MaxLines)} \cup ScenarioTexts

\* pdf_path is None; the extractor raises; or the spans it returns
PdfSources ==
    {[kind |-> "absent", spans |-> <<>>], [kind |-> "raises", spans |-> <<>>]}
    \cup {[kind |-> "spans", spans |-> s] : s \in {<<>>, PaperSpans, <<Span("Short", 240), Span("Body text", 100)>>}}

\* kw_model.extract_keywords: no phrase, an exception, or its top phrase
KeywordOutcomes ==
    {[kind |-> "empty", phrase |-> ""], [kind |-> "raises", phrase |-> ""],
     [kind |-> "phrase", phrase |-> "deep learning methods"]}

\* improved_extract_title is not called; text and pdfSrc are left to the caller
TitleNotCalled ==
    /\ kwOut = [kind |-> "empty", phrase |-> ""]
    /\ content_lines = <<>> /\ title_lines = <<>> /\ strategies = <<>>
    /\ title = "" /\ titlePc = "idle"

TitleIdle == text = "" /\ pdfSrc = [kind |-> "absent", spans |-> <<>>] /\ TitleNotCalled

TitleInit ==
    /\ text \in Texts
    /\ pdfSrc \in PdfSources
    /\ kwOut \in KeywordOutcomes
    /\ content_lines = <<>> /\ title_lines = <<>> /\ strategies = <<>>
    /\ title = "" /\ titlePc = "font"

\* lines 209-217
StrategyFont ==
    /\ titlePc = "font"
    /\ IF pdfSrc.kind = "absent"
           THEN titlePc' = "lines" /\ UNCHANGED <<title, strategies>>
       ELSE IF pdfSrc.kind = "raises"
           THEN /\ titlePc' = IF FontErrorCaught THEN "lines" ELSE "raised"
                /\ strategies' = Append(strategies, "font")
                /\ UNCHANGED title
       ELSE LET ft == extract_title_from_font_info(pdfSrc.spans)
            IN  /\ strategies' = Append(strategies, "font")
                /\ IF FontAccepted(ft)
                       THEN title' = ft.val /\ titlePc' = "done"
                       ELSE titlePc' = "lines" /\ UNCHANGED title
    /\ UNCHANGED <<text, pdfSrc, kwOut, content_lines, title_lines>>
    /\ UNCHANGED exceptTitle

\* lines 219-276
StrategyLines ==
    /\ titlePc = "lines"
    /\ content_lines' = ContentLines(text)
    /\ title_lines' = TitleLines(content_lines')
    /\ strategies' = Append(strategies, "lines")
    /\ IF title_lines' # <<>>
           THEN title' = join(" ", title_lines') /\ titlePc' = "done"
           ELSE titlePc' = "keybert" /\ UNCHANGED title
    /\ UNCHANGED <<text, pdfSrc, kwOut>>
    /\ UNCHANGED exceptTitle

\* lines 278-291
StrategyKeyBERT ==
    /\ titlePc = "keybert"
    /\ strategies' = Append(strategies, "keybert")
    /\ IF kwOut.kind = "phrase"
           THEN title' = kwOut.phrase /\ titlePc' = "done"
       ELSE IF kwOut.kind = "raises"
           THEN titlePc' = (IF KeyBERTErrorCaught THEN "final" ELSE "raised") /\ UNCHANGED title
       ELSE titlePc' = "final" /\ UNCHANGED title
    /\ UNCHANGED <<text, pdfSrc, kwOut, content_lines, title_lines>>
    /\ UNCHANGED exceptTitle

\* lines 293-298
FinalFallback ==
    /\ titlePc = "final"
    /\ strategies' = Append(strategies, "final")
    /\ title' = FinalFallbackTitle(content_lines)
    /\ titlePc' = "done"
    /\ UNCHANGED <<text, pdfSrc, kwOut, content_lines, title_lines>>
    /\ UNCHANGED exceptTitle

-----------------------------------------------------------------------------
(* extract_authors *)

TitleEndWords == 2
AuthorSpanWindow == 10
AuthorSpanWords == 4
AuthorMinLen == 3
TitleFindWords == 3
TitleWordLen == 3
AuthorCandWords == 6
AuthorCandLen == 100
MaxCandidates == 3
PatternLines == 10
PatternLen == 150

SectionWords == {"abstract", "introduction", "keywords"}
InstitutionWords == {"university", "department", "institute", "school"}
\* line 184; its copyright alternative is two upper-case letters in the source
\* and never matches the lower-cased candidate
NonAuthorWords == {"http", "www", "doi", "journal", "received", "accepted", "published"}
PatternStopWords == {"abstract", "introduction", "http", "www"}

LastN(s, n) == SubSeq(s, Max(1, Len(s) - n + 1), Len(s))
FirstN(s, n) == SubSeq(s, 1, Min(n, Len(s)))

RECURSIVE SelectLonger(_, _)
SelectLonger(ws, n) ==
    IF ws = <<>> THEN <<>>
    ELSE IF Len(ws[1]) > n THEN <<ws[1]>> \o SelectLonger(Tail(ws), n)
    ELSE SelectLonger(Tail(ws), n)

\* lines 106-113: the first span holding one of the title's last two words; 0 if none
TitleEndIndex(spans, ttl) ==
    LET ws   == LastN(split(ttl), TitleEndWords)
        hits == {i \in 1..Len(spans) : \E k \in 1..Len(ws) : In(ws[k], spans[i].text)}
    IN  IF hits = {} THEN 0 ELSE CHOOSE i \in hits : \A j \in hits : i <= j

\* lines 127-128
SpanLooksLikeAuthor(e) ==
    \/ In(",", e)
    \/ In(" and ", lower(e))
    \/ (Len(split(e)) <= AuthorSpanWords /\ Len(e) > AuthorMinLen)

\* The loop of lines 119-133 from span i to span last, acc the indices appended.
RECURSIVE FontAuthorWalk(_, _, _, _)
FontAuthorWalk(spans, i, last, acc) ==
    IF i > last THEN acc
    ELSE LET e    == spans[i].text
             acc2 == IF SpanLooksLikeAuthor(e) THEN Append(acc, i) ELSE acc
         IN  IF SearchWords(SectionWords, lower(e)) THEN acc
             ELSE IF SearchWords(InstitutionWords, lower(e)) THEN acc2
             ELSE FontAuthorWalk(spans, i + 1, last, acc2)

\* lines 116-133 with a window one span too long
PotentialAuthors_WindowTooLong(spans, t) ==
    IF t >= 1 /\ t < Len(spans)
        THEN FontAuthorWalk(spans, t + 1, Min(t + AuthorSpanWindow, Len(spans)), <<>>)
        ELSE <<>>

\* lines 116-133, t the title end index (1-based; 0 when not found)
PotentialAuthors(spans, t) ==
    IF t >= 1 /\ t < Len(spans)
        THEN FontAuthorWalk(spans, t + 1, Min(t + AuthorSpanWindow - 1, Len(spans)), <<>>)
        ELSE <<>>

\* lines 154-155
LineHasTitle(line, ttl) ==
    LET ws == FirstN(SelectLonger(split(ttl), TitleWordLen), TitleFindWords)
    IN  \E k \in 1..Len(ws) : In(ws[k], line)

\* lines 166-167
LineLooksLikeAuthor(line) ==
    \/ In(",", line)
    \/ In(" and ", lower(line))
    \/ (Len(split(line)) <= AuthorCandWords /\ Len(line) > AuthorMinLen /\ Len(line) < AuthorCandLen)

\* The loop of lines 146-177 from line i on.
RECURSIVE LineAuthorWalk(_, _, _, _, _)
LineAuthorWalk(lines, ttl, i, found, acc) ==
    IF i > Len(lines) THEN acc
    ELSE LET line == strip(lines[i])
             acc2 == IF LineLooksLikeAuthor(line) THEN Append(acc, line) ELSE acc
         IN  IF line = "" THEN LineAuthorWalk(lines, ttl, i + 1, found, acc)
             ELSE IF ~found THEN LineAuthorWalk(lines, ttl, i + 1, LineHasTitle(line, ttl), acc)
             ELSE IF SearchWords(SectionWords, lower(line)) THEN acc
             ELSE IF SearchWords(InstitutionWords, lower(line)) \/ Len(line) > AuthorCandLen THEN acc2
             ELSE IF Len(acc2) >= MaxCandidates THEN acc2
             ELSE LineAuthorWalk(lines, ttl, i + 1, found, acc2)

AuthorCandidates(t, ttl) == LineAuthorWalk(split_on(strip(t), "\n"), ttl, 1, FALSE, <<>>)

\* lines 181-187
RECURSIVE FilterAuthors(_)
FilterAuthors(cands) ==
    IF cands = <<>> THEN <<>>
    ELSE IF SearchWords(NonAuthorWords, lower(cands[1])) THEN FilterAuthors(Tail(cands))
    ELSE <<cands[1]>> \o FilterAuthors(Tail(cands))

\* lines 197-199 with the length test or-ed in instead of and-ed
IsAuthorPattern_OrLen(line) ==
    \/ In(",", line) /\ In(" and ", lower(line)) /\ ~SearchWords(PatternStopWords, lower(line))
    \/ Len(line) < PatternLen

IsAuthorPattern(line) ==
    /\ In(",", line)
    /\ In(" and ", lower(line))
    /\ ~SearchWords(PatternStopWords, lower(line))
    /\ Len(line) < PatternLen

\* lines 193-200: the first matching line among the first 10, stripped; None if none
RECURSIVE PatternWalk(_, _)
PatternWalk(lines, i) ==
    IF i > Min(PatternLines, Len(lines)) THEN None
    ELSE IF IsAuthorPattern(strip(lines[i])) THEN Some(strip(lines[i]))
    ELSE PatternWalk(lines, i + 1)

PatternAuthors(t) == PatternWalk(split_on(strip(t), "\n"), 1)

AuthorsNotFound == "Authors not found"

\* line 137 without its handler
AuthorFontErrorCaught_Missing == FALSE

\* the handler of line 137
AuthorFontErrorCaught == TRUE

-----------------------------------------------------------------------------
(* The documents extract_authors is applied to *)

AuthorLinePool == {
    "Deep Learning for X",
    "Alice Smith, Bob Jones",
    "Carol White and Dan Brown, MIT",
    "Abstract: ...",
    "Stanford University",
    "Published in a journal, www.x.org",
    "",
    LongLine }

\* the copyright sign U+00A9, written with a character of the ASCII range that
\* no other text of the model uses: like the sign it is no word character, no
\* white space and has no lower case
CopyrightSign == "~"

\* a front page whose line after the title is the copyright notice
CopyrightText == "Deep Learning for X\n" \o CopyrightSign \o " 2020 Alice Smith"

AuthorTexts == {join("\n", ls) : ls \in SeqsUpTo(AuthorLinePool, MaxLines)}
                   \cup {DeepLearningText, CopyrightText}

ManyNames == [i \in 1..(AuthorSpanWindow + 1) |-> Span("Ann Lee", 120)]

AuthorSources ==
    {[kind |-> "absent", spans |-> <<>>], [kind |-> "raises", spans |-> <<>>],
     [kind |-> "spans", spans |-> <<>>],
     [kind |-> "spans", spans |-> PaperSpans],
     [kind |-> "spans", spans |-> <<Span("Deep Learning", 240), Span("for X", 240),
                                     Span("Alice Smith, Bob Jones", 120), Span("Keywords: x", 100),
                                     Span("Ann Lee", 120)>>],
     [kind |-> "spans", spans |-> <<Span("Deep Learning for X", 240)>> \o ManyNames]}

\* title=None, title="", or a title
TitleArgs == {None, Some(""), Some("Deep Learning for X"), Some("Paper Title Here Paper Title Here cont."),
              Some("Unknown Title")}

AuthorIdle ==
    /\ titleArg = None /\ title_end_index = 0 /\ potential_authors = <<>>
    /\ author_candidates = <<>> /\ authorStrategies = <<>>
    /\ authors = "" /\ authorPc = "idle"

AuthorInit ==
    /\ titleArg \in TitleArgs
    /\ title_end_index = 0 /\ potential_authors = <<>>
    /\ author_candidates = <<>> /\ authorStrategies = <<>>
    /\ authors = "" /\ authorPc = "font"

\* "if title:"
HasTitle == titleArg.some /\ titleArg.val # ""

\* lines 99-138
AuthorFont ==
    /\ authorPc = "font"
    /\ IF pdfSrc.kind = "absent"
           THEN /\ authorPc' = "lines"
                /\ UNCHANGED <<title_end_index, potential_authors, authors, authorStrategies>>
       ELSE IF pdfSrc.kind = "raises"
           THEN /\ authorPc' = IF AuthorFontErrorCaught THEN "lines" ELSE "raised"
                /\ authorStrategies' = Append(authorStrategies, "font")
                /\ UNCHANGED <<title_end_index, potential_authors, authors>>
       ELSE /\ authorStrategies' = Append(authorStrategies, "font")
            /\ title_end_index' = IF HasTitle THEN TitleEndIndex(pdfSrc.spans, titleArg.val) ELSE 0
            /\ potential_authors' = PotentialAuthors(pdfSrc.spans, title_end_index')
            /\ IF potential_authors' # <<>>
                   THEN /\ authors' = join(" ", [k \in 1..Len(potential_authors') |->
                                                    pdfSrc.spans[potential_authors'[k]].text])
                        /\ authorPc' = "done"
                   ELSE authorPc' = "lines" /\ UNCHANGED authors
    /\ UNCHANGED <<titleArg, author_candidates>>
    /\ UNCHANGED exceptAuthors

\* lines 140-190
AuthorLines ==
    /\ authorPc = "lines"
    /\ IF ~HasTitle
           THEN authorPc' = "pattern" /\ UNCHANGED <<author_candidates, authors, authorStrategies>>
           ELSE /\ authorStrategies' = Append(authorStrategies, "lines")
                /\ author_candidates' = AuthorCandidates(text, titleArg.val)
                /\ IF FilterAuthors(author_candidates') # <<>>
                       THEN authors' = join(" ", FilterAuthors(author_candidates')) /\ authorPc' = "done"
                       ELSE authorPc' = "pattern" /\ UNCHANGED authors
    /\ UNCHANGED <<titleArg, title_end_index, potential_authors>>
    /\ UNCHANGED exceptAuthors

\* lines 192-202
AuthorPattern ==
    /\ authorPc = "pattern"
    /\ authorStrategies' = Append(authorStrategies, "pattern")
    /\ authors' = IF PatternAuthors(text).some THEN PatternAuthors(text).val ELSE AuthorsNotFound
    /\ authorPc' = "done"
    /\ UNCHANGED <<titleArg, title_end_index, potential_authors, author_candidates>>
    /\ UNCHANGED exceptAuthors

-----------------------------------------------------------------------------
(* BatchProcessor._calculate_statistics *)

\* a / b of Python: a quotient, or ZeroDivisionError when den is 0
Quotient(a, b) == [num |-> a, den |-> b]
\* the int 0 of an "else 0"
Zero == Quotient(0, 1)

RECURSIVE SumLen(_)
SumLen(ws) == IF ws = <<>> THEN 0 ELSE Len(ws[1]) + SumLen(Tail(ws))

\* line 94 guarded by the summary instead of the text
compression_ratio_GuardSummary(t, sm) == IF sm # "" THEN Quotient(Len(sm), Len(t)) ELSE Zero

\* line 94
compression_ratio(t, sm) == IF t # "" THEN Quotient(Len(sm), Len(t)) ELSE Zero

\* line 91
average_word_length(t) ==
    IF split(t) # <<>> THEN Quotient(SumLen(split(t)), Len(split(t))) ELSE Zero

\* line 92
average_sentence_length(t) ==
    IF split_on(t, ".") # <<>> THEN Quotient(Len(split(t)), Len(split_on(t, "."))) ELSE Zero

\* lines 84-95
calculate_statistics(t, sm) ==
    [character_count         |-> Len(t),
     word_count              |-> Len(split(t)),
     sentence_count          |-> Len(split_on(t, ".")),
     average_word_length     |-> average_word_length(t),
     average_sentence_length |-> average_sentence_length(t),
     summary_length          |-> Len(sm),
     compression_ratio       |-> compression_ratio(t, sm)]

DividesByZero(st) ==
    \/ st.average_word_length.den = 0
    \/ st.average_sentence_length.den = 0
    \/ st.compression_ratio.den = 0

NoStatistics == calculate_statistics("", "")

MaxChars == 3

RECURSIVE StringsUpTo(_, _)
StringsUpTo(alphabet, n) ==
    IF n = 0 THEN {""}
    ELSE LET shorter == StringsUpTo(alphabet, n - 1)
         IN  shorter \cup {s \o c : s \in shorter, c \in alphabet}

StatsIdle == rawText = "" /\ summaryText = "" /\ statistics = NoStatistics /\ statsPc = "idle"

StatsInit ==
    /\ rawText \in StringsUpTo({"a", " ", ".", "\n"}, MaxChars)
    /\ summaryText \in StringsUpTo({"s"}, MaxChars)
    /\ statistics = NoStatistics
    /\ statsPc = "call"

CalculateStatistics ==
    /\ statsPc = "call"
    /\ IF DividesByZero(calculate_statistics(rawText, summaryText))
           THEN statsPc' = "raised" /\ UNCHANGED statistics
           ELSE statsPc' = "done" /\ statistics' = calculate_statistics(rawText, summaryText)
    /\ UNCHANGED <<rawText, summaryText>>
    /\ UNCHANGED exceptStats

-----------------------------------------------------------------------------
(* summarize *)

MaxInputLength == 1024
SummaryMaxLength == 100
SummaryMinLength == 30

Return(v) == [exc |-> FALSE, val |-> v]
Raise(e) == [exc |-> TRUE, val |-> e]

\* lines 317-320: the call made to the pipeline for a text of these words
SummarizerCall(words) ==
    [words      |-> IF Len(words) > MaxInputLength THEN SubSeq(words, 1, MaxInputLength) ELSE words,
     max_length |-> SummaryMaxLength,
     min_length |-> SummaryMinLength]

\* lines 320-321: no handler around the call
summarize(words, out) == IF out.exc THEN Raise(out.val) ELSE Return(out.val)

MaxWords == 60

WordsOf(n) == [i \in 1..n |-> "w"]

\* the pipeline returns a summary or raises
ModelOutcomes == {Return("A summary."), Raise("ModelError")}

SummarizeIdle ==
    /\ sumWords = <<>> /\ modelOut = Return("") /\ modelCall = None
    /\ summary = "" /\ sumPc = "idle"

SummarizeInit ==
    /\ sumWords \in {WordsOf(n) : n \in (0..MaxWords) \cup {MaxInputLength, MaxInputLength + 1}}
    /\ modelOut \in ModelOutcomes
    /\ modelCall = None
    /\ summary = ""
    /\ sumPc = "call"

Summarize ==
    /\ sumPc = "call"
    /\ modelCall' = Some(SummarizerCall(sumWords))
    /\ IF summarize(sumWords, modelOut).exc
           THEN sumPc' = "raised" /\ UNCHANGED summary
           ELSE sumPc' = "done" /\ summary' = summarize(sumWords, modelOut).val
    /\ UNCHANGED <<sumWords, modelOut>>
    /\ UNCHANGED exceptSummarize

-----------------------------------------------------------------------------
(* improved_extract_title and extract_authors as functions of their inputs *)

improved_extract_title(t, src, kw) ==
    LET ft == IF src.kind = "spans" THEN extract_title_from_font_info(src.spans) ELSE None
        cl == ContentLines(t)
        tl == TitleLines(cl)
    IN  IF FontAccepted(ft) THEN ft.val
        ELSE IF tl # <<>> THEN join(" ", tl)
        ELSE IF kw.kind = "phrase" THEN kw.phrase
        ELSE FinalFallbackTitle(cl)

extract_authors(t, ttl, src) ==
    LET has   == ttl.some /\ ttl.val # ""
        spans == IF src.kind = "spans" THEN src.spans ELSE <<>>
        pa    == IF has THEN PotentialAuthors(spans, TitleEndIndex(spans, ttl.val)) ELSE <<>>
        fa    == IF has THEN FilterAuthors(AuthorCandidates(t, ttl.val)) ELSE <<>>
    IN  IF pa # <<>> THEN join(" ", [k \in 1..Len(pa) |-> spans[pa[k]].text])
        ELSE IF fa # <<>> THEN join(" ", fa)
        ELSE IF PatternAuthors(t).some THEN PatternAuthors(t).val
        ELSE AuthorsNotFound

-----------------------------------------------------------------------------
(* clean_text *)

\* s.replace(old, new)
RECURSIVE replace(_, _, _)
replace(s, old, new) ==
    IF Len(s) < Len(old) THEN s
    ELSE IF SubSeq(s, 1, Len(old)) = old
        THEN new \o replace(SubSeq(s, Len(old) + 1, Len(s)), old, new)
    ELSE Ch(s, 1) \o replace(Tail(s), old, new)

\* the two replacements in the other order
clean_text_LineBreaksFirst(t) == replace(replace(t, "\n", " "), "-\n", "")

clean_text(t) == replace(replace(t, "-\n", ""), "\n", " ")

MaxNormLen == 4
NormChars == {"a", "-", "\n", " "}

NormIdle == normText = "" /\ normalized = "" /\ normPc = "idle"

NormInit ==
    /\ normText \in StringsUpTo(NormChars, MaxNormLen)
    /\ normalized = "" /\ normPc = "call"

CleanText ==
    /\ normPc = "call"
    /\ normalized' = clean_text(normText)
    /\ normPc' = "done"
    /\ UNCHANGED normText
    /\ UNCHANGED exceptNormalize

-----------------------------------------------------------------------------
(* BatchProcessor.process_single_pdf *)

TextChunkSize == 3000

\* os.path.basename
basename(path) ==
    LET cuts == {i \in 1..Len(path) : Ch(path, i) = "/"}
    IN  IF cuts = {} THEN path
        ELSE SubSeq(path, (CHOOSE i \in cuts : \A j \in cuts : j <= i) + 1, Len(path))

\* A PDF file: what the renderer gives for it and what the two models do with it.
Doc(path, size, extract, fonts, kw, model, keywords) ==
    [path |-> path, size |-> size, extract |-> extract, fonts |-> fonts, kw |-> kw,
     model |-> model, keywords |-> keywords]

\* an error record that keeps the title worked out before the failure
ErrorRecord_WithTitle(path, e) ==
    [file_path |-> path, file_name |-> basename(path), title |-> "Unknown Title", error |-> e,
     status |-> "error"]

\* lines 72-78 and 126-132 (processed_at, a clock reading, is left out)
ErrorRecord(path, e) ==
    [file_path |-> path, file_name |-> basename(path), error |-> e, status |-> "error"]

\* lines 33-69: the body of the try; Raise(e) when a step raises e
ProcessBody(d) ==
    IF d.extract.exc THEN Raise(d.extract.val)
    ELSE LET t   == d.extract.val
             ttl == improved_extract_title(t, d.fonts, d.kw)
             smy == summarize(split(FirstN(clean_text(t), TextChunkSize)), d.model)
         IN  IF strip(t) = "" THEN Raise("No text extracted from PDF")
             ELSE IF smy.exc THEN smy
             ELSE IF d.keywords.exc THEN d.keywords
             ELSE IF DividesByZero(calculate_statistics(t, smy.val)) THEN Raise("division by zero")
             ELSE Return([file_path  |-> d.path,
                          file_name  |-> basename(d.path),
                          file_size  |-> d.size,
                          title      |-> ttl,
                          authors    |-> extract_authors(t, Some(ttl), d.fonts),
                          summary    |-> smy.val,
                          keywords   |-> d.keywords.val,
                          statistics |-> calculate_statistics(t, smy.val),
                          status     |-> "success"])

\* lines 30-80: the handler of line 71 turns every exception into an error record
process_single_pdf(d) ==
    IF ProcessBody(d).exc THEN Return(ErrorRecord(d.path, ProcessBody(d).val)) ELSE ProcessBody(d)

-----------------------------------------------------------------------------
(* BatchProcessor.process_batch *)

DefaultMaxWorkers == 4
MaxFiles == 3

GoodFonts == [kind |-> "spans",
              spans |-> <<Span("Deep Learning for X", 240), Span("Alice Smith, Bob Jones", 120),
                          Span("Abstract", 120)>>]
NoPhrase == [kind |-> "empty", phrase |-> ""]

DocPool == {
    Doc("/in/good.pdf", 1000, Return(DeepLearningText), GoodFonts, NoPhrase,
        Return("A summary."), Return(<<"deep learning">>)),
    Doc("/in/corrupt.pdf", 10, Raise("cannot open broken document"), [kind |-> "raises", spans |-> <<>>],
        NoPhrase, Return("A summary."), Return(<<"deep learning">>)),
    Doc("/in/scan.pdf", 500, Return("  \n"), [kind |-> "spans", spans |-> <<>>], NoPhrase,
        Return("A summary."), Return(<<>>)),
    Doc("/in/nosummary.pdf", 800, Return(DeepLearningText), GoodFonts, NoPhrase,
        Raise("ModelError"), Return(<<"deep learning">>)),
    Doc("/in/nokeywords.pdf", 900, Return("Learning\nto\nRank [3]"), [kind |-> "spans", spans |-> <<>>],
        [kind |-> "raises", phrase |-> ""], Return("A summary."), Raise("ModelError")) }

\* what each file of the pool is processed to, on its own
Processed == [d \in DocPool |-> process_single_pdf(d)]

\* progress_callback: None, a callback that returns, a callback that raises
Callbacks == {"none", "returns", "raises"}

\* result["status"] == "success", mistaken for the truth value of the dict
IsSuccess_Truthy(r) == TRUE

\* result["status"] == "success", compared with the wrong spelling
IsSuccess_WrongCase(r) == r.status = "Success"

\* line 117
IsSuccess(r) == r.status = "success"

\* the handler of line 125
CollectErrorCaught == TRUE

Pending(i) == futures[i].state = "pending"
Running == {i \in 1..Len(futures) : futures[i].state = "running"}

BatchIdle ==
    /\ pdf_paths = <<>> /\ max_workers = DefaultMaxWorkers /\ progress_callback = "none"
    /\ futures = <<>> /\ yielded = {} /\ results = <<>> /\ errors = <<>>
    /\ callbacks = <<>> /\ batch_summary = None /\ batchPc = "idle"

\* after BatchProcessor(max_workers), with the arguments of the process_batch call
BatchInit ==
    /\ pdf_paths \in SeqsUpTo(DocPool, MaxFiles)
    /\ max_workers \in {1, DefaultMaxWorkers}
    /\ progress_callback \in Callbacks
    /\ futures = <<>> /\ yielded = {} /\ results = <<>> /\ errors = <<>>
    /\ callbacks = <<>> /\ batch_summary = None /\ batchPc = "start"

\* lines 99-110: the lists are reset and every path is submitted
SubmitAll ==
    /\ batchPc = "start"
    /\ results' = <<>> /\ errors' = <<>>
    /\ futures' = [i \in 1..Len(pdf_paths) |-> [state |-> "pending", outcome |-> Return("")]]
    /\ batchPc' = "collect"
    /\ UNCHANGED <<pdf_paths, max_workers, progress_callback, yielded, callbacks, batch_summary>>
    /\ UNCHANGED exceptBatch

\* a free worker thread takes the oldest queued task
WorkerStart(i) ==
    /\ batchPc = "collect"
    /\ Pending(i) /\ \A j \in 1..(i - 1) : ~Pending(j)
    /\ Cardinality(Running) < max_workers
    /\ futures' = [futures EXCEPT ![i].state = "running"]
    /\ UNCHANGED <<pdf_paths, max_workers, progress_callback, yielded, results, errors,
                   callbacks, batch_summary, batchPc>>
    /\ UNCHANGED exceptBatch

\* the worker runs process_single_pdf to its end and sets the future
WorkerFinish(i) ==
    /\ futures[i].state = "running"
    /\ futures' = [futures EXCEPT ![i] = [state |-> "done", outcome |-> Processed[pdf_paths[i]]]]
    /\ UNCHANGED <<pdf_paths, max_workers, progress_callback, yielded, results, errors,
                   callbacks, batch_summary, batchPc>>
    /\ UNCHANGED exceptBatch

\* lines 113-134: one turn of the as_completed loop, for a finished future
Collect(i) ==
    /\ batchPc = "collect"
    /\ futures[i].state = "done" /\ i \notin yielded
    /\ yielded' = yielded \cup {i}
    /\ LET out    == futures[i].outcome
           path   == pdf_paths[i].path
           failed == ErrorRecord(path, IF out.exc THEN out.val ELSE "callback failed")
       IN  IF out.exc
               THEN \* future.result() raises
                    /\ IF CollectErrorCaught
                           THEN errors' = Append(errors, failed) /\ UNCHANGED batchPc
                           ELSE batchPc' = "raised" /\ UNCHANGED errors
                    /\ UNCHANGED <<results, callbacks>>
               ELSE LET r  == out.val
                        rs == IF IsSuccess(r) THEN Append(results, r) ELSE results
                        es == IF IsSuccess(r) THEN errors ELSE Append(errors, r)
                    IN  /\ results' = rs
                        /\ callbacks' = IF progress_callback = "none" THEN callbacks
                                        ELSE Append(callbacks, <<Cardinality(yielded'), Len(pdf_paths), r.file_path>>)
                        /\ IF progress_callback = "raises"
                               THEN IF CollectErrorCaught
                                        THEN errors' = Append(es, failed) /\ UNCHANGED batchPc
                                        ELSE errors' = es /\ batchPc' = "raised"
                               ELSE errors' = es /\ UNCHANGED batchPc
    /\ UNCHANGED <<pdf_paths, max_workers, progress_callback, futures, batch_summary>>
    /\ UNCHANGED exceptBatch

\* lines 136-150: the executor is left when every future has been yielded
ReturnSummary ==
    /\ batchPc = "collect"
    /\ yielded = 1..Len(pdf_paths)
    /\ batch_summary' = Some([total_files |-> Len(pdf_paths),
                              successful  |-> Len(results),
                              failed      |-> Len(errors),
                              results     |-> results,
                              errors      |-> errors])
    /\ batchPc' = "done"
    /\ UNCHANGED <<pdf_paths, max_workers, progress_callback, futures, yielded, results, errors, callbacks>>
    /\ UNCHANGED exceptBatch

-----------------------------------------------------------------------------
(* extract_text_from_pdf and extract_text_with_font_info: the document handle *)

MaxPagesRead == 2
MaxPages == 3

\* A page of a file: get_text returns its text and spans, or raises.
Page(ok, txt, spans) == [ok |-> ok, text |-> txt, spans |-> spans]

PagePool == {
    Page(TRUE, "Deep Learning for X\n", <<Span("Deep Learning for X", 240), Span("  ", 120)>>),
    Page(TRUE, "Body text\n", <<Span(" Body text ", 100)>>),
    Page(FALSE, "", <<>>) }

\* A file on disk: fitz.open accepts it or raises.
FilePool ==
    {[opens |-> FALSE, pages |-> <<>>]} \cup
    {[opens |-> TRUE, pages |-> ps] : ps \in SeqsUpTo(PagePool, MaxPages)}

ExtractFunctions == {"extract_text_from_pdf", "extract_text_with_font_info"}

\* lines 35-44: the spans of a page, stripped, the empty ones dropped
RECURSIVE StrippedSpans(_)
StrippedSpans(spans) ==
    IF spans = <<>> THEN <<>>
    ELSE LET t == strip(Head(spans).text)
         IN  (IF t # "" THEN <<Span(t, Head(spans).size)>> ELSE <<>>) \o StrippedSpans(Tail(spans))

ExtractIdle ==
    /\ extractFn = "none" /\ file = [opens |-> FALSE, pages |-> <<>>] /\ doc = "none"
    /\ page_no = 1 /\ full_text = "" /\ text_with_font = <<>> /\ extractPc = "idle"

ExtractInit ==
    /\ extractFn \in ExtractFunctions
    /\ file \in FilePool
    /\ doc = "none" /\ page_no = 1 /\ full_text = "" /\ text_with_font = <<>>
    /\ extractPc = "call"

\* lines 13 and 25: doc = fitz.open(pdf_path)
FitzOpen ==
    /\ extractPc = "call"
    /\ IF file.opens
           THEN doc' = "open" /\ extractPc' = "opened"
           ELSE doc' = doc /\ extractPc' = "raised"
    /\ UNCHANGED <<extractFn, file, page_no, full_text, text_with_font>>
    /\ UNCHANGED exceptExtract

\* lines 26-27: the early return for a document without pages
ReturnNoPages ==
    /\ extractPc = "opened" /\ extractFn = "extract_text_with_font_info"
    /\ Len(file.pages) = 0
    /\ text_with_font' = <<>>
    /\ extractPc' = "returned"
    /\ UNCHANGED <<extractFn, file, doc, page_no, full_text>>
    /\ UNCHANGED exceptExtract

\* lines 29-46: the spans of the first page
ReadFirstPage ==
    /\ extractPc = "opened" /\ extractFn = "extract_text_with_font_info"
    /\ Len(file.pages) > 0
    /\ IF file.pages[1].ok
           THEN text_with_font' = StrippedSpans(file.pages[1].spans) /\ extractPc' = "returned"
           ELSE text_with_font' = text_with_font /\ extractPc' = "raised"
    /\ UNCHANGED <<extractFn, file, doc, page_no, full_text>>
    /\ UNCHANGED exceptExtract

\* lines 17-18: one turn of the loop over doc[:max_pages]
ReadPage ==
    /\ extractPc = "opened" /\ extractFn = "extract_text_from_pdf"
    /\ page_no <= Min(Len(file.pages), MaxPagesRead)
    /\ IF file.pages[page_no].ok
           THEN /\ full_text' = full_text \o file.pages[page_no].text
                /\ page_no' = page_no + 1
                /\ extractPc' = extractPc
           ELSE /\ extractPc' = "raised"
                /\ UNCHANGED <<full_text, page_no>>
    /\ UNCHANGED <<extractFn, file, doc, text_with_font>>
    /\ UNCHANGED exceptExtract

\* line 20: return full_text
ReturnText ==
    /\ extractPc = "opened" /\ extractFn = "extract_text_from_pdf"
    /\ page_no > Min(Len(file.pages), MaxPagesRead)
    /\ extractPc' = "returned"
    /\ UNCHANGED <<extractFn, file, doc, page_no, full_text, text_with_font>>
    /\ UNCHANGED exceptExtract

\* Neither function closes doc: the handle is released only when the garbage
\* collector finalizes the Document object, at some time after the call has ended.
Finalize ==
    /\ extractPc \in {"returned", "raised"}
    /\ doc = "open"
    /\ doc' = "closed"
    /\ UNCHANGED <<extractFn, file, page_no, full_text, text_with_font, extractPc>>
    /\ UNCHANGED exceptExtract

-----------------------------------------------------------------------------
(* api.py: the /process and /batch endpoints and their temporary files *)

MaxUploads == 2

AllowedExtensions == {"pdf"}

\* filename.rsplit('.', 1)[1], for a filename with a dot
AfterLastDot(filename) ==
    LET dots == {i \in 1..Len(filename) : Ch(filename, i) = "."}
    IN  SubSeq(filename, (CHOOSE i \in dots : \A j \in dots : j <= i) + 1, Len(filename))

\* lines 30-31
allowed_file(filename) == In(".", filename) /\ lower(AfterLastDot(filename)) \in AllowedExtensions

\* An upload: its filename, whether file.save succeeds, and the PDF it carries.
Upload(filename, saves, d) == [filename |-> filename, saves |-> saves, doc |-> d]

GoodDoc == CHOOSE d \in DocPool : d.path = "/in/good.pdf"

UploadPool ==
    {Upload("paper.pdf", TRUE, d) : d \in DocPool} \cup
    {Upload("paper.pdf", FALSE, GoodDoc), Upload("notes.txt", TRUE, GoodDoc), Upload("", TRUE, GoodDoc)}

\* the name NamedTemporaryFile gives to the k-th temporary file of the request
TmpName(k) == "/tmp/tmp" \o Ch(Digits, k + 1) \o ".pdf"

\* the file behind the temporary path of upload k
TmpDoc(k) == [uploads[k].doc EXCEPT !.path = TmpName(k)]

ErrorBody(code, e) == [code |-> code, body |-> [error |-> e]]

\* "if not text.strip()" without the strip
NoText_Unstripped(t) == t = ""

\* line 65
NoText(t) == strip(t) = ""

\* lines 64-96 for the document d uploaded as filename: the response returned,
\* or Raise(e) when a step raises e
ProcessResponse(d, filename) ==
    IF d.extract.exc THEN Raise(d.extract.val)
    ELSE LET t   == d.extract.val
             ttl == improved_extract_title(t, d.fonts, d.kw)
             smy == summarize(split(FirstN(clean_text(t), TextChunkSize)), d.model)
         IN  IF NoText(t) THEN Return(ErrorBody(400, "No text could be extracted from the PDF"))
             ELSE IF smy.exc THEN smy
             ELSE IF d.keywords.exc THEN d.keywords
             ELSE Return([code |-> 200,
                          body |-> [file_name  |-> filename,
                                    title      |-> ttl,
                                    authors    |-> extract_authors(t, Some(ttl), d.fonts),
                                    summary    |-> smy.val,
                                    keywords   |-> d.keywords.val,
                                    statistics |-> [character_count   |-> Len(t),
                                                    word_count        |-> Len(split(t)),
                                                    sentence_count    |-> Len(split_on(t, ".")),
                                                    compression_ratio |-> compression_ratio(t, smy.val)],
                                    status     |-> "success"]])

\* the functions of summarizer.py that lines 68-76 call, in order, up to the one that raises
ProcessCalls(d) ==
    IF d.extract.exc \/ NoText(d.extract.val) THEN <<>>
    ELSE <<"improved_extract_title", "extract_authors", "clean_text", "summarize">>
             \o (IF d.model.exc THEN <<>> ELSE <<"extract_keywords_with_bert">>)

\* lines 133-134: BatchProcessor().process_batch(temp_paths), its futures completing in
\* the order ord
BatchResponse(ord) ==
    LET recs == [k \in 1..Len(ord) |-> process_single_pdf(TmpDoc(ord[k])).val]
        rs   == SelectSeq(recs, IsSuccess)
        es   == SelectSeq(recs, LAMBDA r : ~IsSuccess(r))
    IN  [code |-> 200,
         body |-> [total_files |-> Len(temp_paths), successful |-> Len(rs), failed |-> Len(es),
                   results |-> rs, errors |-> es]]

\* the orders in which n futures can complete
CompletionOrders(n) == {ord \in [1..n -> 1..n] : \A i, j \in 1..n : ord[i] = ord[j] => i = j}

ApiIdle ==
    /\ endpoint = "" /\ uploads = <<>> /\ tmp_files = {} /\ temp_paths = <<>>
    /\ raised = None /\ response = None /\ called = <<>> /\ apiPc = "idle"

ApiInit ==
    /\ endpoint \in {"/process", "/batch"}
    /\ uploads \in SeqsUpTo(UploadPool, MaxUploads)
    /\ tmp_files = {} /\ temp_paths = <<>>
    /\ raised = None /\ response = None /\ called = <<>> /\ apiPc = "validate"

\* the uploads the endpoint saves: request.files['file'], or the whole list
ToSave == IF endpoint = "/process" THEN 1 ELSE Len(uploads)

\* lines 46-54 and 111-121: the requests answered 400 before anything is saved
ApiValidate ==
    /\ apiPc = "validate"
    /\ LET invalid == {k \in 1..ToSave : ~allowed_file(uploads[k].filename)}
       IN  IF uploads = <<>>
               THEN /\ response' = Some(ErrorBody(400, IF endpoint = "/process" THEN "No file provided"
                                                       ELSE "No files provided"))
                    /\ apiPc' = "done"
           ELSE IF uploads[1].filename = ""
               THEN /\ response' = Some(ErrorBody(400, IF endpoint = "/process" THEN "No file selected"
                                                       ELSE "No files selected"))
                    /\ apiPc' = "done"
           ELSE IF invalid # {}
               THEN /\ response' = Some(ErrorBody(400, "Invalid file type"))
                    /\ apiPc' = "done"
           ELSE apiPc' = "save" /\ UNCHANGED response
    /\ UNCHANGED <<endpoint, uploads, tmp_files, temp_paths, raised, called>>
    /\ UNCHANGED exceptApi

\* lines 58-60 and 127-130: the temporary file is created, the upload is saved
\* into it, and only then is its name kept
ApiSave ==
    /\ apiPc = "save"
    /\ LET k == Len(temp_paths) + 1
       IN  /\ tmp_files' = tmp_files \cup {TmpName(k)}
           /\ IF uploads[k].saves
                  THEN /\ temp_paths' = Append(temp_paths, TmpName(k))
                       /\ apiPc' = IF k = ToSave THEN "process" ELSE "save"
                       /\ UNCHANGED raised
                  ELSE /\ raised' = Some("cannot save the upload")
                       /\ apiPc' = IF endpoint = "/process" THEN "handler" ELSE "finally"
                       /\ UNCHANGED temp_paths
    /\ UNCHANGED <<endpoint, uploads, response, called>>
    /\ UNCHANGED exceptApi

\* lines 64-96 and 133-136: the body of the inner try
ApiProcess ==
    /\ apiPc = "process"
    /\ IF endpoint = "/process"
           THEN LET out == ProcessResponse(TmpDoc(1), uploads[1].filename)
                IN  /\ called' = ProcessCalls(TmpDoc(1))
                    /\ IF out.exc THEN raised' = Some(out.val) /\ UNCHANGED response
                                  ELSE response' = Some(out.val) /\ UNCHANGED raised
           ELSE /\ \E ord \in CompletionOrders(Len(temp_paths)) : response' = Some(BatchResponse(ord))
                /\ UNCHANGED <<raised, called>>
    /\ apiPc' = "finally"
    /\ UNCHANGED <<endpoint, uploads, tmp_files, temp_paths>>
    /\ UNCHANGED exceptApi

\* lines 98-101 and 138-142: the files whose names were kept are removed
ApiFinally ==
    /\ apiPc = "finally"
    /\ tmp_files' = tmp_files \ {temp_paths[k] : k \in 1..Len(temp_paths)}
    /\ apiPc' = IF raised.some THEN "handler" ELSE "done"
    /\ UNCHANGED <<endpoint, uploads, temp_paths, raised, response, called>>
    /\ UNCHANGED exceptApi

\* lines 103-105 and 144-146
ApiHandler ==
    /\ apiPc = "handler"
    /\ response' = Some(ErrorBody(500, raised.val))
    /\ apiPc' = "done"
    /\ UNCHANGED <<endpoint, uploads, tmp_files, temp_paths, raised, called>>
    /\ UNCHANGED exceptApi

-----------------------------------------------------------------------------
(* Specifications *)

vars == <<fontVars, titleVars, authorVars, statsVars, sumVars, batchVars, extractVars, normVars,
         apiVars>>

\* The program: a BatchProcessor running process_batch on a list of files.
Init ==
    BatchInit /\ FontIdle /\ TitleIdle /\ AuthorIdle /\ StatsIdle /\ SummarizeIdle /\ ExtractIdle /\ NormIdle
        /\ ApiIdle
Next ==
    \/ SubmitAll
    \/ \E i \in 1..Len(futures) : WorkerStart(i)
    \/ \E i \in 1..Len(futures) : WorkerFinish(i)
    \/ \E i \in 1..Len(futures) : Collect(i)
    \/ ReturnSummary
Spec == Init /\ [][Next]_vars


InitFont ==
    FontInit /\ TitleIdle /\ AuthorIdle /\ StatsIdle /\ SummarizeIdle /\ BatchIdle /\ ExtractIdle /\ NormIdle
        /\ ApiIdle
NextFont == ExtractTitleFromFontInfo
SpecFont == InitFont /\ [][NextFont]_vars

InitTitle ==
    TitleInit /\ FontIdle /\ AuthorIdle /\ StatsIdle /\ SummarizeIdle /\ BatchIdle /\ ExtractIdle /\ NormIdle
        /\ ApiIdle
NextTitle == StrategyFont \/ StrategyLines \/ StrategyKeyBERT \/ FinalFallback
SpecTitle == InitTitle /\ [][NextTitle]_vars

InitAuthors ==
    /\ text \in AuthorTexts /\ pdfSrc \in AuthorSources
    /\ TitleNotCalled /\ AuthorInit /\ FontIdle /\ StatsIdle /\ SummarizeIdle /\ BatchIdle /\ ExtractIdle /\ NormIdle
    /\ ApiIdle
NextAuthors == AuthorFont \/ AuthorLines \/ AuthorPattern
SpecAuthors == InitAuthors /\ [][NextAuthors]_vars

InitStats ==
    StatsInit /\ FontIdle /\ TitleIdle /\ AuthorIdle /\ SummarizeIdle /\ BatchIdle /\ ExtractIdle /\ NormIdle
        /\ ApiIdle
NextStats == CalculateStatistics
SpecStats == InitStats /\ [][NextStats]_vars

InitSummarize ==
    SummarizeInit /\ FontIdle /\ TitleIdle /\ AuthorIdle /\ StatsIdle /\ BatchIdle /\ ExtractIdle /\ NormIdle
        /\ ApiIdle
NextSummarize == Summarize
SpecSummarize == InitSummarize /\ [][NextSummarize]_vars

\* One call of extract_text_from_pdf or extract_text_with_font_info, and the collector.
InitExtract ==
    ExtractInit /\ FontIdle /\ TitleIdle /\ AuthorIdle /\ StatsIdle /\ SummarizeIdle /\ BatchIdle /\ NormIdle
        /\ ApiIdle
NextExtract ==
    FitzOpen \/ ReturnNoPages \/ ReadFirstPage \/ ReadPage \/ ReturnText \/ Finalize
SpecExtract == InitExtract /\ [][NextExtract]_vars

\* One call of clean_text.
InitNormalize ==
    NormInit /\ FontIdle /\ TitleIdle /\ AuthorIdle /\ StatsIdle /\ SummarizeIdle /\ BatchIdle /\ ExtractIdle
        /\ ApiIdle
NextNormalize == CleanText
SpecNormalize == InitNormalize /\ [][NextNormalize]_vars

\* One request to /process or /batch.
InitApi ==
    ApiInit /\ FontIdle /\ TitleIdle /\ AuthorIdle /\ StatsIdle /\ SummarizeIdle /\ BatchIdle /\ ExtractIdle
        /\ NormIdle
NextApi == ApiValidate \/ ApiSave \/ ApiProcess \/ ApiFinally \/ ApiHandler
SpecApi == InitApi /\ [][NextApi]_vars

-----------------------------------------------------------------------------
(* Claims about the font-based title strategy *)

KeptSet == {title_elements[k] : k \in 1..Len(title_elements)}

\* C5: the font strategy takes maxFont over the first 10 spans, keeps only spans
\* among those first 10 whose size is at least 0.8 * maxFont, and returns the kept
\* texts joined by single spaces; for the three "Paper Title Here" spans it
\* returns the first two and not the third.
C5_FontThresholdAndJoin ==
    fontPc = "done" =>
        /\ \A k \in KeptSet :
               /\ k <= FirstElements
               /\ \E j \in 1..Min(FirstElements, Len(twf)) :
                      /\ \A l \in 1..Min(FirstElements, Len(twf)) : twf[l].size <= twf[j].size
                      /\ 10 * twf[k].size >= 8 * twf[j].size
        /\ (title_elements # <<>> =>
               fontTitle = Some(join(" ", [k \in 1..Len(title_elements) |-> twf[title_elements[k]].text])))
        /\ (twf = PaperSpans =>
               /\ fontTitle = Some("Paper Title Here Paper Title Here cont.")
               /\ title_elements = <<1, 2>>)

C5_Witness == fontPc = "done" /\ twf = PaperSpans /\ fontTitle.some

\* C6: no span appended to the font-based title has, as its whole text, a
\* bracketed citation number or a single letter, whatever its font size.
C6_NoCitationOrLetterSpan ==
    fontPc = "done" =>
        \A k \in KeptSet :
            /\ ~IsBracketedNumber(twf[k].text)
            /\ ~(Len(twf[k].text) = 1 /\ IsLetter(twf[k].text))

\* a citation span and a single-letter span, each with the largest font, and a title
C6_Witness ==
    /\ fontPc = "done"
    /\ fontTitle.some
    /\ \E i, j \in 1..Len(twf) :
           /\ twf[i].text = "[12]" /\ twf[i].size = max_font(twf)
           /\ twf[j].text = "A" /\ twf[j].size = max_font(twf)

-----------------------------------------------------------------------------
(* Claims about improved_extract_title *)

FontUnavailable == pdfSrc.kind \in {"absent", "raises"} \/ pdfSrc.spans = <<>>

\* no line of content_lines[:3] is longer than 15 and shorter than 200 characters
NoSubstantialLine ==
    \A k \in 1..Min(FallbackLines, Len(content_lines)) :
        ~(Len(content_lines[k]) > FallbackMinLen /\ Len(content_lines[k]) < LongLineLen)

\* the font strategy did not accept, no title line was collected, and the keyword
\* model gave no phrase
NoStrategyYields ==
    /\ "lines" \in {strategies[k] : k \in 1..Len(strategies)}
    /\ title_lines = <<>>
    /\ kwOut.kind # "phrase"
    /\ NoSubstantialLine

\* C1: improved_extract_title never raises and returns a non-empty string, for every
\* text, every font-span source (absent, raising, empty) and every behaviour of the
\* keyword model; when no strategy yields a candidate it returns "Unknown Title".
C1_TitleNeverFails ==
    /\ titlePc # "raised"
    /\ (titlePc = "done" =>
           /\ title # ""
           /\ (NoStrategyYields => title = "Unknown Title"))

\* empty text, an extractor that raises and a keyword model that raises
C1_Witness ==
    /\ titlePc = "done" /\ text = "" /\ pdfSrc.kind = "raises" /\ kwOut.kind = "raises"
    /\ title = "Unknown Title"

\* C4: with no font-based title, for the text "Deep Learning for X", then the short
\* author line "Alice Smith, Bob Jones", then "Abstract: ...", the title is
\* exactly the first line.
C4_AuthorLineNotInTitle ==
    (titlePc = "done" /\ FontUnavailable /\ text = DeepLearningText) =>
        title = "Deep Learning for X"

-----------------------------------------------------------------------------
(* Claims about extract_authors *)

\* C2: for an empty text and a font-span sequence that is empty or absent,
\* extract_authors returns exactly "Authors not found", whatever the title
\* argument is (None, empty or any string).
C2_EmptyInputNoAuthors ==
    (authorPc = "done" /\ text = "" /\ (pdfSrc.kind = "absent" \/ (pdfSrc.kind = "spans" /\ pdfSrc.spans = <<>>))) =>
        authors = "Authors not found"

\* an empty text and an empty span sequence, with a title given
C2_Witness ==
    /\ authorPc = "done" /\ text = ""
    /\ pdfSrc.kind = "spans" /\ pdfSrc.spans = <<>>
    /\ titleArg = Some("Deep Learning for X")
    /\ authorStrategies = <<"font", "lines", "pattern">>

-----------------------------------------------------------------------------
(* Claims about the statistics and about summarize *)

IsZero(q) == q.num = 0 /\ q.den # 0

\* C10: _calculate_statistics never divides by zero: for every text and summary it
\* returns; compression_ratio is 0 for the empty text; average_word_length is 0
\* for a text with no whitespace-delimited token; average_sentence_length has a
\* non-zero divisor for every text, the empty one included.
C10_NoDivisionByZero ==
    /\ statsPc # "raised"
    /\ (statsPc = "done" =>
           /\ (rawText = "" => IsZero(statistics.compression_ratio))
           /\ ((\A i \in 1..Len(rawText) : IsSpace(Ch(rawText, i))) =>
                   IsZero(statistics.average_word_length))
           /\ statistics.average_sentence_length.den # 0
           /\ statistics.average_word_length.den # 0
           /\ statistics.compression_ratio.den # 0)

\* the empty text with a non-empty summary
C10_Witness ==
    /\ statsPc = "done" /\ rawText = "" /\ summaryText # ""
    /\ statistics.sentence_count = 1 /\ statistics.word_count = 0

\* C8: the pipeline is called with max_length = min(100, max(w / 2, 10)) and
\* min_length = min(30, max(w / 4, 5)), w the word count of the input, and
\* min_length < max_length; for 20 words that is max_length 10, min_length 5.
C8_AdaptiveLengthBounds ==
    modelCall.some =>
        LET w == Len(sumWords)
        IN  /\ modelCall.val.max_length = Min(SummaryMaxLength, Max(w \div 2, 10))
            /\ modelCall.val.min_length = Min(SummaryMinLength, Max(w \div 4, 5))
            /\ modelCall.val.min_length < modelCall.val.max_length

-----------------------------------------------------------------------------
(* Claims about process_batch *)

\* The file cannot be processed: extraction raises, no text comes out of it, or
\* one of the two models raises on it.
DocFails(d) ==
    \/ d.extract.exc
    \/ strip(d.extract.val) = ""
    \/ d.model.exc
    \/ d.keywords.exc

HasRecord(recs, path, status) ==
    \E k \in 1..Len(recs) : recs[k].file_path = path /\ recs[k].status = status

\* C3: a failure while one PDF is processed never aborts or alters the processing
\* of the others: process_batch never raises, and when it returns every task has
\* run to completion, every failing file has a record with status "error" among
\* the errors (and none among the results), every other file has among the results
\* exactly the record it is processed to on its own, and the summary returned
\* carries these lists.
C3_FailureIsolated ==
    /\ batchPc # "raised"
    /\ batchPc = "done" =>
           /\ batch_summary.some
           /\ batch_summary.val.results = results /\ batch_summary.val.errors = errors
           /\ batch_summary.val.total_files = Len(pdf_paths)
           /\ \A i \in 1..Len(pdf_paths) :
                  LET d == pdf_paths[i]
                  IN  /\ futures[i].state = "done"
                      /\ DocFails(d) =>
                             /\ HasRecord(errors, d.path, "error")
                             /\ ~\E k \in 1..Len(results) : results[k].file_path = d.path
                      /\ ~DocFails(d) =>
                             \E k \in 1..Len(results) : results[k] = ProcessBody(d).val

\* A batch run in parallel has returned, with a failing file ahead of a good one.
C3_Witness ==
    /\ batchPc = "done" /\ max_workers = DefaultMaxWorkers
    /\ \E i, j \in 1..Len(pdf_paths) :
           /\ i < j
           /\ pdf_paths[i].extract.exc /\ ~DocFails(pdf_paths[j])
           /\ HasRecord(errors, pdf_paths[i].path, "error")
           /\ HasRecord(results, pdf_paths[j].path, "success")

\* C9: when the summarization model raises on a file that is otherwise fine, the
\* file still yields a record among the results, built with the string summarize
\* returned, and is not turned into an error.
C9_SummarizeFailureYieldsRecord ==
    batchPc = "done" =>
        \A i \in 1..Len(pdf_paths) :
            LET d == pdf_paths[i]
            IN  (~d.extract.exc /\ strip(d.extract.val) # "" /\ d.model.exc /\ ~d.keywords.exc) =>
                    /\ HasRecord(results, d.path, "success")
                    /\ ~HasRecord(errors, d.path, "error")

-----------------------------------------------------------------------------
(* Claims about the document handle *)

\* C7: the handle fitz.open returned is released on every exit path: once the
\* call has returned (normally or early, for a document without pages) or has
\* raised, the handle is not open.
C7_HandleReleasedOnExit ==
    extractPc \in {"returned", "raised"} => doc # "open"

-----------------------------------------------------------------------------
(* Claims about clean_text *)

\* One pass over the text: a hyphen followed by a line break is dropped, any
\* other line break becomes a space, every other character is kept.
RECURSIVE Unwrapped(_)
Unwrapped(s) ==
    IF s = "" THEN ""
    ELSE IF Len(s) >= 2 /\ SubSeq(s, 1, 2) = "-\n" THEN Unwrapped(SubSeq(s, 3, Len(s)))
    ELSE IF Ch(s, 1) = "\n" THEN " " \o Unwrapped(Tail(s))
    ELSE Ch(s, 1) \o Unwrapped(Tail(s))

\* C11: the output of clean_text contains no line break; hyphen-plus-line-break
\* sequences are removed before the remaining line breaks are replaced by a space
\* ("ab-<linebreak>cd" gives "abcd", "ab<linebreak>cd" gives "ab cd"), and no other
\* character is changed.
C11_NoLineBreakLeft ==
    normPc = "done" =>
        /\ ~In("\n", normalized)
        /\ normalized = Unwrapped(normText)
        /\ clean_text("ab-\ncd") = "abcd"
        /\ clean_text("ab\ncd") = "ab cd"

C11_Witness == normPc = "done" /\ normText = "a-\na" /\ normalized = "aa"

-----------------------------------------------------------------------------
(* Claims about the titles improved_extract_title returns *)

\* the strategy that returned the title
ReturnedBy(strategy) ==
    titlePc = "done" /\ strategies # <<>> /\ strategies[Len(strategies)] = strategy

\* the title starts with a token in square brackets
StartsBracketed(s) == Len(s) >= 2 /\ Ch(s, 1) = "[" /\ \E j \in 2..Len(s) : Ch(s, j) = "]"

\* the title starts with a token made of digits only
StartsNumeric(s) ==
    \E j \in 1..Len(s) :
        /\ \A k \in 1..j : IsDigit(Ch(s, k))
        /\ (j = Len(s) \/ IsSpace(Ch(s, j + 1)))

\* the title holds white space other than single blanks between its words
HasWhitespaceRun(s) ==
    \/ \E i \in 1..Len(s) : IsSpace(Ch(s, i)) /\ Ch(s, i) # " "
    \/ \E i \in 1..(Len(s) - 1) : IsSpace(Ch(s, i)) /\ IsSpace(Ch(s, i + 1))

\* C13: every title returned by the font-based, the line-based or the final
\* fallback strategy has been through the Title Cleaner: it does not start with a
\* bracketed token or a bare numeric token and holds no run of white space longer
\* than one blank.
C13_ReturnedTitleIsCleaned ==
    (ReturnedBy("font") \/ ReturnedBy("lines") \/ ReturnedBy("final")) =>
        /\ ~StartsBracketed(title)
        /\ ~StartsNumeric(title)
        /\ ~HasWhitespaceRun(title)

-----------------------------------------------------------------------------
(* Claims about the per-document records *)

SuccessFields == {"title", "authors", "summary", "keywords", "statistics"}

\* the records process_single_pdf has returned so far
ReturnedRecords ==
    {futures[i].outcome.val : i \in {j \in 1..Len(futures) :
                                       futures[j].state = "done" /\ ~futures[j].outcome.exc}}

RecordShape(r) ==
    /\ r.status \in {"success", "error"}
    /\ r.status = "success" => SuccessFields \subseteq DOMAIN r /\ "error" \notin DOMAIN r
    /\ r.status = "error" => "error" \in DOMAIN r /\ SuccessFields \cap DOMAIN r = {}

IsPrefix(a, b) == Len(a) <= Len(b) /\ SubSeq(b, 1, Len(a)) = a

\* a step leaves every record where it is and as it is
RecordsKept ==
    /\ \A i \in 1..Len(futures) : futures[i].state = "done" => futures'[i] = futures[i]
    /\ IsPrefix(results, results')
    /\ IsPrefix(errors, errors')

\* C14: every record process_single_pdf produces has status "success" or "error"
\* with mutually exclusive fields (a success record carries title, authors, summary,
\* keywords and statistics and no error field; an error record carries an error
\* field and none of those five), and a record is not modified after it is created.
C14_RecordShapeAndImmutable ==
    /\ [](\A r \in ReturnedRecords : RecordShape(r))
    /\ [](\A k \in 1..Len(results) : RecordShape(results[k]) /\ results[k] \in ReturnedRecords)
    /\ [](\A k \in 1..Len(errors) : RecordShape(errors[k]))
    /\ [][RecordsKept]_vars

C14_Witness ==
    /\ batchPc = "done"
    /\ \E k \in 1..Len(results) : results[k].status = "success" /\ "error" \notin DOMAIN results[k]
    /\ \E k \in 1..Len(errors) : errors[k].status = "error" /\ "title" \notin DOMAIN errors[k]

-----------------------------------------------------------------------------
(* Claims about the interleavings of a batch *)

Count(seq, r) == Cardinality({k \in 1..Len(seq) : seq[k] = r})

\* the files of the batch that are processed to r, taken one at a time
FilesGiving(r) == Cardinality({i \in 1..Len(pdf_paths) : ProcessBody(pdf_paths[i]).exc = FALSE
                                                          /\ ProcessBody(pdf_paths[i]).val = r})

\* the files of the batch whose processing fails with the record r
FilesFailingWith(r) ==
    Cardinality({i \in 1..Len(pdf_paths) :
                    /\ DocFails(pdf_paths[i])
                    /\ r = ErrorRecord(pdf_paths[i].path, ProcessBody(pdf_paths[i]).val)})

\* the files of the batch for which a raising progress callback leaves the record r
CallbackFailures(r) ==
    IF progress_callback # "raises" THEN 0
    ELSE Cardinality({i \in 1..Len(pdf_paths) : r = ErrorRecord(pdf_paths[i].path, "callback failed")})

WorkerStep == \E i \in 1..Len(futures) : WorkerStart(i) \/ WorkerFinish(i)

\* C15: worker tasks never write results or errors, only the thread running
\* process_batch appends to them; whatever the order in which the workers finish
\* and their futures are collected, no record is lost or overwritten, and the
\* records of the summary are those the files give one at a time, each as many
\* times, in some order.
C15_SameRecordsUnderEveryInterleaving ==
    /\ [][WorkerStep => UNCHANGED <<results, errors, batch_summary>>]_vars
    /\ [][IsPrefix(results, results') /\ IsPrefix(errors, errors')]_vars
    /\ [](batchPc = "done" =>
              /\ \A k \in 1..Len(batch_summary.val.results) :
                     LET r == batch_summary.val.results[k]
                     IN  Count(batch_summary.val.results, r) = FilesGiving(r)
              /\ \A k \in 1..Len(batch_summary.val.errors) :
                     LET r == batch_summary.val.errors[k]
                     IN  Count(batch_summary.val.errors, r) = FilesFailingWith(r) + CallbackFailures(r)
              /\ Len(batch_summary.val.results) = Cardinality({i \in 1..Len(pdf_paths) : ~DocFails(pdf_paths[i])})
              /\ Len(batch_summary.val.errors) =
                     Cardinality({i \in 1..Len(pdf_paths) : DocFails(pdf_paths[i])})
                     + (IF progress_callback = "raises" THEN Len(pdf_paths) ELSE 0))

\* Three files were run by four workers, and the two that fail were collected in
\* the order opposite to their submission.
C15_Witness ==
    /\ batchPc = "done" /\ max_workers = DefaultMaxWorkers /\ Len(pdf_paths) = 3
    /\ progress_callback = "returns"
    /\ DocFails(pdf_paths[1]) /\ ~DocFails(pdf_paths[2]) /\ DocFails(pdf_paths[3])
    /\ pdf_paths[1] # pdf_paths[3]
    /\ Len(results) = 1 /\ Len(errors) = 2
    /\ errors[1].file_path = pdf_paths[3].path /\ errors[2].file_path = pdf_paths[1].path

-----------------------------------------------------------------------------
(* Claims about the order of the title strategies *)

Rank(strategy) ==
    CASE strategy = "font" -> 1 [] strategy = "lines" -> 2
      [] strategy = "keybert" -> 3 [] strategy = "final" -> 4

Ran(strategy) == \E k \in 1..Len(strategies) : strategies[k] = strategy

\* the candidate of the font-based strategy, and whether it is one to accept
FontCandidate ==
    IF pdfSrc.kind = "spans" THEN extract_title_from_font_info(pdfSrc.spans) ELSE None
FontCandidateAccepted == FontCandidate.some /\ Len(FontCandidate.val) > MinTitleLen

\* C16: the title strategies are tried in the order font-based, line-based,
\* keyword fallback, final fallback, and the first that produces an accepted
\* candidate determines the result: the line-based strategy runs only if the
\* font-based one did not accept, the keyword model is called only if no title line
\* was collected, and the final fallback is consulted only if the keyword model
\* gave no phrase or raised.
C16_StrategiesInOrder ==
    /\ \A i, j \in 1..Len(strategies) : i < j => Rank(strategies[i]) < Rank(strategies[j])
    /\ Ran("lines") => ~FontCandidateAccepted
    /\ Ran("keybert") => Ran("lines") /\ title_lines = <<>>
    /\ Ran("final") => Ran("keybert") /\ kwOut.kind \in {"empty", "raises"}
    /\ ReturnedBy("font") => FontCandidateAccepted /\ title = FontCandidate.val
    /\ ReturnedBy("lines") => title_lines # <<>> /\ title = join(" ", title_lines)
    /\ ReturnedBy("keybert") => kwOut.kind = "phrase" /\ title = kwOut.phrase
    /\ titlePc = "done" => strategies # <<>>

\* The font strategy did not accept, no title line was collected, the keyword
\* model raised, and the final fallback gave the title.
C16_Witness ==
    /\ strategies = <<"font", "lines", "keybert", "final">>
    /\ titlePc = "done" /\ kwOut.kind = "raises" /\ pdfSrc.kind = "spans" /\ FontCandidate.some

-----------------------------------------------------------------------------
(* Claims about the walk of the font-based title strategy *)

\* the largest font size among the first 10 spans of twf
LargestFont ==
    CHOOSE m \in {twf[i].size : i \in 1..Min(FirstElements, Len(twf))} :
        \A i \in 1..Min(FirstElements, Len(twf)) : twf[i].size <= m

BelowThreshold(i) == 10 * twf[i].size < 8 * LargestFont

\* the span is passed over before its font size is compared with the threshold:
\* under 4 characters and smaller than the largest font, a bracketed number, or a
\* single letter
PassedOver(i) ==
    \/ Len(twf[i].text) < 4 /\ twf[i].size < LargestFont
    \/ IsBracketedNumber(twf[i].text)
    \/ Len(twf[i].text) = 1 /\ IsLetter(twf[i].text)

\* C17: the collected title spans are contiguous: once a title span has been
\* collected, the first later span among the first 10 whose font size is below the
\* threshold stops the walk, and no span after it is in the title.
C17_StopsAtFirstSmallerSpan ==
    (fontPc = "done" /\ title_elements # <<>>) =>
        \A k \in KeptSet :
            ~\E j \in (title_elements[1] + 1)..(k - 1) : BelowThreshold(j)

\* C17 as amended: once a title span has been collected, the first later span
\* among the first 10 that is not passed over (as shorter than 4 characters below
\* the largest font, as a bracketed number or as a single letter) and whose font
\* size is below the threshold stops the walk, and no span after it is in the title.
C17_StopsAtFirstSmallerSpanNotPassedOver ==
    (fontPc = "done" /\ title_elements # <<>>) =>
        \A k \in KeptSet :
            ~\E j \in (title_elements[1] + 1)..(k - 1) : BelowThreshold(j) /\ ~PassedOver(j)

\* a title span, a span of body text, and a span in the title's font that is left out
C17_Witness ==
    /\ fontPc = "done"
    /\ twf = <<Span("Paper Title Here", 240), Span("Body text", 100), Span("Paper Title Here cont.", 235)>>
    /\ title_elements = <<1>>
    /\ BelowThreshold(2) /\ ~PassedOver(2) /\ ~BelowThreshold(3)

-----------------------------------------------------------------------------
(* Claims about the length of the title *)

\* C18: a candidate of the font-based or of the line-based strategy is returned
\* only if it is longer than 10 characters; a candidate of 10 characters or fewer
\* is never returned by these strategies, the next strategy is tried instead.
C18_ShortCandidateFallsThrough ==
    (ReturnedBy("font") \/ ReturnedBy("lines")) => Len(title) > MinTitleLen

-----------------------------------------------------------------------------
(* Claims about affiliations in the font-based title *)

\* C19: the font-based title never contains a span whose text matches the
\* affiliation/contact pattern, whatever the case of its letters: a span containing
\* department, university, institute, email or the character @ is left out.
C19_NoAffiliationSpan ==
    fontPc = "done" =>
        \A k \in KeptSet : \A w \in AffiliationWords : ~In(w, lower(twf[k].text))

-----------------------------------------------------------------------------
(* Claims about the line-based title *)

\* The line matches an end marker: one of the patterns of the code's list, or a
\* leading token of digits.
IsEndMarkerLine(line) == MatchesEndMarker(lower(line)) \/ StartsNumeric(line)

\* the content lines inspected before the first end marker line
BeforeEndMarker ==
    LET n    == Min(TitleCandidateLines, Len(content_lines))
        ends == {i \in 1..n : IsEndMarkerLine(content_lines[i])}
        stop == IF ends = {} THEN n + 1 ELSE CHOOSE i \in ends : \A j \in ends : i <= j
    IN  SubSeq(content_lines, 1, stop - 1)

\* a is b with some of its elements left out
RECURSIVE IsSubsequence(_, _)
IsSubsequence(a, b) ==
    IF a = <<>> THEN TRUE
    ELSE IF b = <<>> THEN FALSE
    ELSE IF Head(a) = Head(b) THEN IsSubsequence(Tail(a), Tail(b))
    ELSE IsSubsequence(a, Tail(b))

\* C20: the line-based title is built only from lines among the first 5 filtered
\* content lines, each shorter than 200 characters; collection stops at the first
\* line matching an end marker, so neither that line nor any later line is part
\* of the title.
C20_TitleLinesBeforeEndMarker ==
    Ran("lines") =>
        /\ IsSubsequence(title_lines, BeforeEndMarker)
        /\ \A k \in 1..Len(title_lines) : Len(title_lines[k]) < LongLineLen

-----------------------------------------------------------------------------
(* Claims about the final fallback *)

\* the content lines longer than 15 and shorter than 200 characters
SubstantialLines ==
    {i \in 1..Len(content_lines) :
        Len(content_lines[i]) > FallbackMinLen /\ Len(content_lines[i]) < LongLineLen}

\* C21: when the final fallback is reached it returns the first content line whose
\* length is strictly between 15 and 200 characters, wherever that line is in
\* the content; "Unknown Title" is returned only if no content line has such a
\* length.
C21_FirstSubstantialLineAnywhere ==
    ReturnedBy("final") =>
        IF SubstantialLines = {} THEN title = "Unknown Title"
        ELSE title = content_lines[CHOOSE i \in SubstantialLines : \A j \in SubstantialLines : i <= j]

-----------------------------------------------------------------------------
(* Claims about exceptions inside the title strategies *)

NoPdfSource == [kind |-> "absent", spans |-> <<>>]

\* C22: an exception inside a title strategy is never fatal: if the font-span
\* extractor raises, improved_extract_title returns what it returns for the same
\* text with no PDF source, and if the keyword model raises it returns what it
\* returns when the model yields no phrase.
C22_StrategyExceptionNotFatal ==
    /\ titlePc # "raised"
    /\ (titlePc = "done" /\ pdfSrc.kind = "raises") =>
           title = improved_extract_title(text, NoPdfSource, kwOut)
    /\ (titlePc = "done" /\ kwOut.kind = "raises") =>
           title = improved_extract_title(text, pdfSrc, NoPhrase)

\* the extractor raised, no title line was collected, the keyword model raised
C22_Witness ==
    /\ titlePc = "done" /\ pdfSrc.kind = "raises" /\ kwOut.kind = "raises"
    /\ strategies = <<"font", "lines", "keybert", "final">>
    /\ title = "Unknown Title"

-----------------------------------------------------------------------------
(* Claims about the font-based author strategy *)

AuthorRan(strategy) == \E k \in 1..Len(authorStrategies) : authorStrategies[k] = strategy

AuthorSpanSet == {potential_authors[k] : k \in 1..Len(potential_authors)}

HasSectionWord(s) == SearchWords({"abstract", "introduction", "keywords"}, lower(s))
HasInstitutionWord(s) == SearchWords({"university", "department", "institute", "school"}, lower(s))

-----------------------------------------------------------------------------
(* Claims about the line-based author strategy *)

\* the stripped lines of the text that follow the line where the title is found
LinesAfterTitle ==
    LET lines == split_on(strip(text), "\n")
        hits  == {i \in 1..Len(lines) : strip(lines[i]) # "" /\ LineHasTitle(strip(lines[i]), titleArg.val)}
        first == IF hits = {} THEN Len(lines) ELSE CHOOSE i \in hits : \A j \in hits : i <= j
    IN  [k \in 1..(Len(lines) - first) |-> strip(lines[first + k])]

\* C24: the line-based author strategy collects at most 3 candidate lines, all
\* after the line where the title was found, and stops immediately at a line that
\* matches abstract/introduction/keywords, has an institutional keyword or is
\* longer than 100 characters: no collected candidate has an institutional
\* keyword or exceeds 100 characters.
C24_CandidatesBeforeStop ==
    AuthorRan("lines") =>
        /\ Len(author_candidates) <= MaxCandidates
        /\ IsSubsequence(author_candidates, LinesAfterTitle)
        /\ \A k \in 1..Len(author_candidates) :
               /\ ~HasSectionWord(author_candidates[k])
               /\ ~HasInstitutionWord(author_candidates[k])
               /\ Len(author_candidates[k]) <= AuthorCandLen

\* the markers of a line that is no author line
NoiseMarkers == {"http", "www", "doi", CopyrightSign, "journal", "received", "accepted", "published"}
HasNoiseMarker(s) == \E m \in NoiseMarkers : In(m, lower(s))
WithoutNoise == SelectSeq(author_candidates, LAMBDA c : ~HasNoiseMarker(c))

\* C25: the author string the line-based strategy returns is made of the
\* candidate lines that contain no noise marker (http, www, doi, the copyright
\* sign, journal, received, accepted, published); when every candidate is
\* filtered out the strategy yields nothing and the pattern-only fallback is tried.
C25_NoNoiseInAuthors ==
    (authorPc = "done" /\ AuthorRan("lines") /\ author_candidates # <<>>) =>
        IF WithoutNoise = <<>>
            THEN AuthorRan("pattern")
            ELSE authors = join(" ", WithoutNoise) /\ ~AuthorRan("pattern")

-----------------------------------------------------------------------------
(* Claims about the order of the author strategies *)

AuthorRank(strategy) ==
    CASE strategy = "font" -> 1 [] strategy = "lines" -> 2 [] strategy = "pattern" -> 3

\* the lines the pattern-only strategy may return: among the first 10, with a
\* comma and " and ", none of the words abstract, introduction, http, www, and
\* fewer than 150 characters
PatternLineSet ==
    LET lines == split_on(strip(text), "\n")
    IN  {i \in 1..Min(10, Len(lines)) :
            /\ In(",", lines[i]) /\ In(" and ", lower(lines[i]))
            /\ ~SearchWords({"abstract", "introduction", "http", "www"}, lower(lines[i]))
            /\ Len(strip(lines[i])) < 150}

FirstPatternLine ==
    LET lines == split_on(strip(text), "\n")
    IN  strip(lines[CHOOSE i \in PatternLineSet : \A j \in PatternLineSet : i <= j])

\* C26: extract_authors never raises and tries font-based, line-based and
\* pattern-only in this order; a later strategy runs only if every earlier one
\* yielded nothing or raised; the pattern-only strategy needs no title; and
\* "Authors not found" is returned only when all three yield nothing.
C26_AuthorStrategiesInOrder ==
    /\ authorPc # "raised"
    /\ \A i, j \in 1..Len(authorStrategies) :
           i < j => AuthorRank(authorStrategies[i]) < AuthorRank(authorStrategies[j])
    /\ (AuthorRan("lines") \/ AuthorRan("pattern")) => potential_authors = <<>>
    /\ AuthorRan("pattern") => WithoutNoise = <<>>
    /\ authorPc = "done" =>
           /\ (AuthorRan("pattern") /\ PatternLineSet # {}) => authors = FirstPatternLine
           /\ authors = AuthorsNotFound <=> (AuthorRan("pattern") /\ PatternLineSet = {})

C26_Witness ==
    /\ authorPc = "done" /\ pdfSrc.kind = "raises" /\ titleArg = None
    /\ authorStrategies = <<"font", "pattern">>
    /\ authors = "Carol White and Dan Brown, MIT"

-----------------------------------------------------------------------------
(* Claims about the title end in the font-based author strategy *)

\* the spans the font title of the document is made of
TitleSpanSet == {TitleElements(pdfSrc.spans)[k] : k \in 1..Len(TitleElements(pdfSrc.spans))}

\* the title handed to extract_authors is the font title of the same document
TitleIsFontTitle ==
    /\ pdfSrc.kind = "spans" /\ HasTitle
    /\ titleArg = extract_title_from_font_info(pdfSrc.spans)

\* C27: in the font-based author strategy the span located as the title end is
\* the last span of the title, so no span of the title is returned as an author
\* (for a title spread over several spans, the later title spans are not
\* returned as authors).
C27_TitleSpansAreNoAuthors ==
    (AuthorRan("font") /\ TitleIsFontTitle) =>
        /\ \A k \in TitleSpanSet : k <= title_end_index
        /\ AuthorSpanSet \cap TitleSpanSet = {}

-----------------------------------------------------------------------------
(* Claims about the count of the batch records *)

\* how many of the submitted paths are p, and how many records name p
Submitted(p) == Cardinality({i \in 1..Len(pdf_paths) : pdf_paths[i].path = p})
RecordsFor(p, recs) == Cardinality({k \in 1..Len(recs) : recs[k].file_path = p})

\* C28: after process_batch returns, every submitted path (duplicates counted
\* separately) has contributed exactly one record, to results or to errors and
\* never to both, so successful + failed = total_files; for every completion
\* order and every behaviour of progress_callback, a raising one included.
C28_OneRecordPerPath ==
    batchPc = "done" =>
        /\ \A i \in 1..Len(pdf_paths) :
               RecordsFor(pdf_paths[i].path, results) + RecordsFor(pdf_paths[i].path, errors)
                   = Submitted(pdf_paths[i].path)
        /\ batch_summary.val.successful + batch_summary.val.failed = batch_summary.val.total_files

-----------------------------------------------------------------------------
(* Claims about the endpoints of api.py *)

\* C29: every temporary file the /process and /batch endpoints create for an
\* uploaded PDF has been deleted by the time the response is produced, on every
\* path: success, the 400 response for an empty text, a failure while saving any
\* upload, and any exception during processing.
C29_NoTemporaryFileLeft ==
    apiPc = "done" => tmp_files = {}

\* the uploads whose PDF gives an empty or whitespace-only text
BlankUploads == {k \in 1..Len(uploads) : ~uploads[k].doc.extract.exc /\ strip(uploads[k].doc.extract.val) = ""}

Sentinels == {"Unknown Title", "Authors not found"}

\* the records of a /batch response that name the temporary file of upload k
BatchRecordsOf(recs, k) == {j \in 1..Len(recs) : recs[j].file_path = TmpName(k)}

\* C30: a document whose extracted text is empty or whitespace-only never
\* reaches title inference, author inference, summarization or keyword
\* extraction: process_single_pdf yields a record with status "error" ("No text
\* extracted from PDF") and /process answers 400, so no success record with the
\* sentinels "Unknown Title" / "Authors not found" is produced for it.
C30_BlankTextStopsProcessing ==
    /\ (endpoint = "/process" /\ 1 \in BlankUploads /\ apiPc \in {"finally", "handler", "done"}
            /\ temp_paths # <<>>) =>
           /\ called = <<>>
           /\ raised = None
           /\ response = Some(ErrorBody(400, "No text could be extracted from the PDF"))
    /\ (endpoint = "/batch" /\ response.some /\ response.val.code = 200) =>
           \A k \in BlankUploads :
               /\ BatchRecordsOf(response.val.body.results, k) = {}
               /\ \E j \in 1..Len(response.val.body.errors) :
                      response.val.body.errors[j] = ErrorRecord(TmpName(k), "No text extracted from PDF")
               /\ Cardinality(BatchRecordsOf(response.val.body.errors, k)) = 1
    /\ (response.some /\ response.val.code = 200 /\ endpoint = "/process") =>
           1 \notin BlankUploads

C30_Witness ==
    /\ apiPc = "done" /\ endpoint = "/process" /\ BlankUploads = {1}
    /\ uploads[1].doc.extract.val = "  \n"
    /\ response.some /\ response.val.code = 400 /\ tmp_files = {}

====
